---- MODULE Spec2Model ----
(***************************************************************************)
(* Model of the playlist API of playpose-game: the serverless function     *)
(* (src/netlify/functions/playlists.py, `handler`) and the development     *)
(* server (src/server.py, `DevHandler.handle_api`).                        *)
(*                                                                         *)
(* Conventions.                                                            *)
(*  - A Python dict is a function whose domain is the set of keys that are *)
(*    present; d.get(k) is Get(d, k).                                      *)
(*  - A Python value that may be None is wrapped: None is NoneV, any other *)
(*    value v is Some(v).                                                  *)
(*  - Text whose characters the code inspects (mood keywords, item titles, *)
(*    playlist ids, the limit parameter) is a sequence of one-character    *)
(*    strings; text the code only compares or echoes (action, q, params    *)
(*    tokens, messages) is a string.                                       *)
(***************************************************************************)
EXTENDS Integers, Sequences, FiniteSets, TLC

VARIABLES
    deployment,         \* "netlify" (playlists.py) or "dev" (server.py): which module this process runs
    YTMUSIC_AVAILABLE,  \* server.py's import flag; the serverless module imports unconditionally
    catalog,            \* what the upstream service answers (environment)
    ytmusic,            \* the module global `ytmusic`: NoneV or Some(handle)
    attempts,           \* number of YTMusic() calls made so far in this process
    constructed,        \* number of YTMusic() calls that returned a handle
    event,              \* query parameters of the request handled last
    limit,              \* the handler's local `limit` for that request
    calls,              \* the catalog-client calls made while handling that request
    response            \* what the handler produced for that request

vars == <<deployment, YTMUSIC_AVAILABLE, catalog, ytmusic, attempts, constructed,
          event, limit, calls, response>>

----------------------------------------------------------------------------
(* Bounds of the model *)

MaxAttempts == 3
MaxLimitLen == 3
MaxCats == 2
MaxItems == 2
MaxGroups == 2
MaxRecords == 2
MaxResults == 3

----------------------------------------------------------------------------
(* Python values *)

NoneV == [some |-> FALSE]
Some(v) == [some |-> TRUE, val |-> v]

\* d.get(k): None when the key is absent
Get(d, k) == IF k \in DOMAIN d THEN Some(d[k]) ELSE NoneV

\* d.get(k, default)
GetOr(d, k, default) == IF k \in DOMAIN d THEN d[k] ELSE default

\* Python truthiness of an optional text: None and the empty text are falsy
Truthy(o) == o.some /\ Len(o.val) > 0

Min(a, b) == IF a < b THEN a ELSE b
Max(a, b) == IF a > b THEN a ELSE b

\* All sequences over S of length at most n
SeqsUpTo(S, n) == UNION {[1..k -> S] : k \in 0..n}

----------------------------------------------------------------------------
(* str.lower() and the `in` operator on text *)

UpperCase == <<"A","B","C","D","E","F","G","H","I","J","K","L","M",
               "N","O","P","Q","R","S","T","U","V","W","X","Y","Z">>
LowerCase == <<"a","b","c","d","e","f","g","h","i","j","k","l","m",
               "n","o","p","q","r","s","t","u","v","w","x","y","z">>

LowerChar(c) ==
    IF \E i \in 1..Len(UpperCase) : UpperCase[i] = c
    THEN LowerCase[CHOOSE i \in 1..Len(UpperCase) : UpperCase[i] = c]
    ELSE c

Lower(s) == [i \in 1..Len(s) |-> LowerChar(s[i])]

\* sub in s
Contains(sub, s) ==
    \E i \in 0..(Len(s) - Len(sub)) : SubSeq(s, i + 1, i + Len(sub)) = sub

\* str(x) for an optional text: str(None) is "None"
Str(o) == IF o.some THEN o.val ELSE <<"N","o","n","e">>

----------------------------------------------------------------------------
(* int(text) *)

DigitChars == <<"0","1","2","3","4","5","6","7","8","9">>
IsDigit(c) == \E i \in 1..Len(DigitChars) : DigitChars[i] = c
DigitVal(c) == (CHOOSE i \in 1..Len(DigitChars) : DigitChars[i] = c) - 1
IsSpace(c) == c = " "

RECURSIVE StripLeft(_)
StripLeft(s) ==
    IF Len(s) > 0 /\ IsSpace(s[1]) THEN StripLeft(Tail(s)) ELSE s

RECURSIVE StripRight(_)
StripRight(s) ==
    IF Len(s) > 0 /\ IsSpace(s[Len(s)]) THEN StripRight(SubSeq(s, 1, Len(s) - 1)) ELSE s

\* digits, with single underscores allowed between digits
WellFormedDigits(s) ==
    /\ Len(s) > 0
    /\ IsDigit(s[1]) /\ IsDigit(s[Len(s)])
    /\ \A i \in 1..Len(s) : IsDigit(s[i]) \/ s[i] = "_"
    /\ \A i \in 1..(Len(s) - 1) : ~(s[i] = "_" /\ s[i + 1] = "_")

RECURSIVE DigitsValue(_, _)
DigitsValue(s, acc) ==
    IF Len(s) = 0 THEN acc
    ELSE IF s[1] = "_" THEN DigitsValue(Tail(s), acc)
    ELSE DigitsValue(Tail(s), 10 * acc + DigitVal(s[1]))

\* int(s): Some(n), or NoneV where Python raises ValueError
PyInt(s) ==
    LET t == StripRight(StripLeft(s))
        signed == Len(t) > 0 /\ t[1] \in {"+", "-"}
        body == IF signed THEN Tail(t) ELSE t
    IN  IF ~WellFormedDigits(body) THEN NoneV
        ELSE IF signed /\ t[1] = "-" THEN Some(0 - DigitsValue(body, 0))
        ELSE Some(DigitsValue(body, 0))

ClampNoUpper(n) == Max(1, n)

\* min(50, max(1, n))
ClampLimit(n) == Min(50, Max(1, n))

\* the try/except around the limit expression
ParseLimit(params) ==
    LET parsed == PyInt(GetOr(params, "limit", <<"1","0">>))
    IN  IF parsed.some THEN ClampLimit(parsed.val) ELSE 10

----------------------------------------------------------------------------
(* The static keyword table *)

MOOD_CATEGORIES == <<
    [key |-> <<"w","o","r","k","o","u","t">>,
     label |-> <<"W","o","r","k","o","u","t">>],
    [key |-> <<"e","n","e","r","g","i","z","e">>,
     label |-> <<"E","n","e","r","g","i","z","e">>],
    [key |-> <<"p","a","r","t","y">>,
     label |-> <<"P","a","r","t","y">>],
    [key |-> <<"c","h","i","l","l">>,
     label |-> <<"C","h","i","l","l">>],
    [key |-> <<"f","o","c","u","s">>,
     label |-> <<"F","o","c","u","s">>],
    [key |-> <<"r","o","m","a","n","c","e">>,
     label |-> <<"R","o","m","a","n","c","e">>],
    [key |-> <<"s","a","d">>,
     label |-> <<"S","a","d">>],
    [key |-> <<"s","l","e","e","p">>,
     label |-> <<"S","l","e","e","p">>],
    [key |-> <<"k","i","d","s">>,
     label |-> <<"K","i","d","s">>],
    [key |-> <<"c","o","m","m","u","t","e">>,
     label |-> <<"C","o","m","m","u","t","e">>]
>>

\* MOOD_CATEGORIES.get(key, default)
MoodCategoriesGet(key, default) ==
    IF \E i \in 1..Len(MOOD_CATEGORIES) : MOOD_CATEGORIES[i].key = key
    THEN MOOD_CATEGORIES[CHOOSE i \in 1..Len(MOOD_CATEGORIES) : MOOD_CATEGORIES[i].key = key].label
    ELSE default

----------------------------------------------------------------------------
(* Values the adapters return: a list, or the dict {"error": message} *)

PyList(items) == [type |-> "list", items |-> items]
PyError(msg) == [type |-> "dict", error |-> msg]

\* str(e) of the exception a client call raises
ExceptionMessage(op) == op \o " failed"

\* str(KeyError('params'))
KeyErrorMessage == "'params'"

\* One call on the external client, as recorded in `calls`
Call(op, handle, arg) == [op |-> op, handle |-> handle, arg |-> arg]

----------------------------------------------------------------------------
(* The catalog client, as the adapters consume it.  `fail` is the set of    *)
(* client operations that raise while the current request is handled.       *)

ClientOps == {"YTMusic", "get_mood_categories", "get_mood_playlists", "search"}

\* every item of the taxonomy, in category then item enumeration order
RECURSIVE Flatten(_)
Flatten(categories) ==
    IF Len(categories) = 0 THEN <<>>
    ELSE Head(categories) \o Flatten(Tail(categories))

get_best_thumbnail(thumbnails) ==
    IF Len(thumbnails) = 0 THEN NoneV
    ELSE Get(thumbnails[Len(thumbnails)], "url")

----------------------------------------------------------------------------
(* src/netlify/functions/playlists.py *)

\* Result of get_ytmusic(): whether YTMusic() was called, whether it raised,
\* and the value of the global afterwards
get_ytmusic_always(yt, n, fail) ==
    IF "YTMusic" \in fail
    THEN [attempted |-> TRUE, raised |-> TRUE, yt |-> yt]
    ELSE [attempted |-> TRUE, raised |-> FALSE, yt |-> Some(n + 1)]

get_ytmusic_netlify(yt, n, fail) ==
    IF yt = NoneV
    THEN IF "YTMusic" \in fail
         THEN [attempted |-> TRUE, raised |-> TRUE, yt |-> yt]
         ELSE [attempted |-> TRUE, raised |-> FALSE, yt |-> Some(n + 1)]
    ELSE [attempted |-> FALSE, raised |-> FALSE, yt |-> yt]

\* the calls get_ytmusic() adds to the log
ConstructCalls(g) == IF g.attempted THEN <<Call("YTMusic", NoneV, "")>> ELSE <<>>

\* What an adapter hands back to the router: it raised, or returned `ret`
Raised(g, cs) == [raised |-> TRUE, ret |-> PyError(""), calls |-> cs, g |-> g]
Returned(g, cs, ret) == [raised |-> FALSE, ret |-> ret, calls |-> cs, g |-> g]

\* the dict appended for one raw playlist by fetch_mood_playlists
SummaryNetlifyBrowse(playlist) ==
    [id |-> Get(playlist, "playlistId"),
     title |-> Get(playlist, "title"),
     description |-> GetOr(playlist, "description", ""),
     thumbnail |-> get_best_thumbnail(GetOr(playlist, "thumbnails", <<>>)),
     url |-> <<"https://music.youtube.com/playlist?list=">> \o Str(Get(playlist, "playlistId"))]

\* the inner loop over one group's playlists
RECURSIVE AppendGroupNetlify(_, _, _)
AppendGroupNetlify(group_playlists, lim, playlists) ==
    IF Len(group_playlists) = 0 \/ Len(playlists) >= lim THEN playlists
    ELSE AppendGroupNetlify(Tail(group_playlists), lim,
                            Append(playlists, SummaryNetlifyBrowse(Head(group_playlists))))

\* the loop over the playlist groups of one matched item
RECURSIVE CollectNetlify(_, _, _)
CollectNetlify(mood_playlists, lim, playlists) ==
    IF Len(mood_playlists) = 0 THEN playlists
    ELSE CollectNetlify(Tail(mood_playlists), lim,
             AppendGroupNetlify(GetOr(Head(mood_playlists), "playlists", <<>>), lim, playlists))

MatchesNetlify(target_mood, item) ==
    Contains(Lower(target_mood), Lower(GetOr(item, "title", <<>>)))

\* the loops over categories and items: every matching item is fetched
RECURSIVE BrowseItemsNetlify(_, _, _, _, _, _, _)
BrowseItemsNetlify(items, target_mood, lim, playlists, cs, cat, fail) ==
    IF Len(items) = 0 THEN [ret |-> PyList(playlists), calls |-> cs]
    ELSE LET item == Head(items) IN
         IF ~MatchesNetlify(target_mood, item)
         THEN BrowseItemsNetlify(Tail(items), target_mood, lim, playlists, cs, cat, fail)
         ELSE IF "params" \notin DOMAIN item
         THEN [ret |-> PyError(KeyErrorMessage), calls |-> cs]
         ELSE LET cs2 == Append(cs, Call("get_mood_playlists", cat.handle, item["params"])) IN
              IF "get_mood_playlists" \in fail
              THEN [ret |-> PyError(ExceptionMessage("get_mood_playlists")), calls |-> cs2]
              ELSE BrowseItemsNetlify(Tail(items), target_mood, lim,
                       CollectNetlify(cat.mood_playlists[item["params"]], lim, playlists),
                       cs2, cat, fail)

fetch_mood_playlists_netlify(mood, lim, yt, n, cat, fail) ==
    LET g == get_ytmusic_netlify(yt, n, fail)
        cs0 == ConstructCalls(g)
        client == [handle |-> g.yt, mood_playlists |-> cat.mood_playlists]
        cs1 == Append(cs0, Call("get_mood_categories", g.yt, ""))
        target_mood == MoodCategoriesGet(Lower(mood), mood)
    IN  IF g.raised THEN Raised(g, cs0)
        ELSE IF "get_mood_categories" \in fail
        THEN Returned(g, cs1, PyError(ExceptionMessage("get_mood_categories")))
        ELSE LET r == BrowseItemsNetlify(Flatten(cat.taxonomy), target_mood, lim,
                                         <<>>, cs1, client, fail)
             IN  Returned(g, r.calls, r.ret)

SummaryNetlifySearch(item) ==
    [id |-> Get(item, "playlistId"),
     title |-> Get(item, "title"),
     description |-> GetOr(item, "description", ""),
     thumbnail |-> get_best_thumbnail(GetOr(item, "thumbnails", <<>>)),
     url |-> <<"https://www.youtube.com/playlist?list=">> \o Str(Get(item, "playlistId"))]

RECURSIVE SearchLoopNetlify(_, _)
SearchLoopNetlify(results, playlists) ==
    IF Len(results) = 0 THEN playlists
    ELSE LET item == Head(results) IN
         IF Get(item, "resultType") = Some("playlist")
         THEN SearchLoopNetlify(Tail(results), Append(playlists, SummaryNetlifySearch(item)))
         ELSE SearchLoopNetlify(Tail(results), playlists)

search_playlists_netlify(query, lim, yt, n, cat, fail) ==
    LET g == get_ytmusic_netlify(yt, n, fail)
        cs0 == ConstructCalls(g)
        cs1 == Append(cs0, Call("search", g.yt, query))
    IN  IF g.raised THEN Raised(g, cs0)
        ELSE IF "search" \in fail
        THEN Returned(g, cs1, PyError(ExceptionMessage("search")))
        ELSE Returned(g, cs1, PyList(SearchLoopNetlify(cat.search, <<>>)))

MoodEntry(item) == [title |-> Get(item, "title"), params |-> Get(item, "params")]

get_available_moods_netlify(yt, n, cat, fail) ==
    LET g == get_ytmusic_netlify(yt, n, fail)
        cs0 == ConstructCalls(g)
        cs1 == Append(cs0, Call("get_mood_categories", g.yt, ""))
        items == Flatten(cat.taxonomy)
    IN  IF g.raised THEN Raised(g, cs0)
        ELSE IF "get_mood_categories" \in fail
        THEN Returned(g, cs1, PyError(ExceptionMessage("get_mood_categories")))
        ELSE Returned(g, cs1, PyList([i \in 1..Len(items) |-> MoodEntry(items[i])]))

NoCall(yt) == [attempted |-> FALSE, raised |-> FALSE, yt |-> yt]

\* the `else` branch of the router: the action is echoed into the message
UnknownActionNoEcho(action) == [error |-> "Unknown action"]

UnknownActionNetlify(action) == [error |-> "Unknown action: " \o action]

\* the search branch without its check of q
route_search_unchecked(params, lim, yt, n, cat, fail) ==
    LET r == search_playlists_netlify(GetOr(params, "q", ""), lim, yt, n, cat, fail)
    IN  [g |-> r.g, calls |-> r.calls, raised |-> r.raised, result |-> [playlists |-> r.ret]]

\* elif action == "search"
route_search_netlify(params, lim, yt, n, cat, fail) ==
    LET query == GetOr(params, "q", "")
        r == search_playlists_netlify(query, lim, yt, n, cat, fail)
    IN  IF Len(query) > 0
        THEN [g |-> r.g, calls |-> r.calls, raised |-> r.raised,
              result |-> [playlists |-> r.ret]]
        ELSE [g |-> NoCall(yt), calls |-> <<>>, raised |-> FALSE,
              result |-> [error |-> "Missing 'q' parameter for search"]]

\* the if/elif chain of handler
RouteNetlify(action, params, lim, yt, n, cat, fail) ==
    IF action = "moods"
    THEN LET r == get_available_moods_netlify(yt, n, cat, fail)
         IN  [g |-> r.g, calls |-> r.calls, raised |-> r.raised, result |-> [moods |-> r.ret]]
    ELSE IF action = "browse"
    THEN LET mood == GetOr(params, "mood", <<"p","a","r","t","y">>)
             r == fetch_mood_playlists_netlify(mood, lim, yt, n, cat, fail)
         IN  [g |-> r.g, calls |-> r.calls, raised |-> r.raised, result |-> [playlists |-> r.ret]]
    ELSE IF action = "search"
    THEN route_search_netlify(params, lim, yt, n, cat, fail)
    ELSE [g |-> NoCall(yt), calls |-> <<>>, raised |-> FALSE,
          result |-> UnknownActionNetlify(action)]

----------------------------------------------------------------------------
(* src/server.py *)

get_ytmusic_dev(available, yt, n, fail) ==
    IF yt = NoneV /\ available
    THEN IF "YTMusic" \in fail
         THEN [attempted |-> TRUE, raised |-> TRUE, yt |-> yt]
         ELSE [attempted |-> TRUE, raised |-> FALSE, yt |-> Some(n + 1)]
    ELSE [attempted |-> FALSE, raised |-> FALSE, yt |-> yt]

NotAvailable == PyError("ytmusicapi not available")

\* the test that skips a playlist id
InvalidId(playlist_id) ==
    \/ ~Truthy(playlist_id)
    \/ playlist_id.val = <<"N","o","n","e">>
    \/ Lower(Str(playlist_id)) \in {<<"n","o","n","e">>, <<"n","u","l","l">>}

SummaryDev(playlist) ==
    [id |-> Get(playlist, "playlistId"),
     title |-> Some(GetOr(playlist, "title", "Unknown")),
     description |-> GetOr(playlist, "description", ""),
     thumbnail |-> get_best_thumbnail(GetOr(playlist, "thumbnails", <<>>)),
     url |-> <<"https://www.youtube.com/playlist?list=">> \o Str(Get(playlist, "playlistId"))]

\* the records one playlist group yields: nested under "playlists", or the
\* group itself when it carries a playlistId
GroupPlaylistsDev(playlist_group) ==
    LET nested == GetOr(playlist_group, "playlists", <<>>)
    IN  IF Len(nested) = 0 /\ "playlistId" \in DOMAIN playlist_group
        THEN <<playlist_group>>
        ELSE nested

RECURSIVE AppendGroupDev(_, _, _)
AppendGroupDev(group_playlists, lim, playlists) ==
    IF Len(group_playlists) = 0 \/ Len(playlists) >= lim THEN playlists
    ELSE IF InvalidId(Get(Head(group_playlists), "playlistId"))
    THEN AppendGroupDev(Tail(group_playlists), lim, playlists)
    ELSE AppendGroupDev(Tail(group_playlists), lim,
                        Append(playlists, SummaryDev(Head(group_playlists))))

RECURSIVE CollectDev(_, _, _)
CollectDev(mood_playlists, lim, playlists) ==
    IF Len(mood_playlists) = 0 THEN playlists
    ELSE CollectDev(Tail(mood_playlists), lim,
             AppendGroupDev(GroupPlaylistsDev(Head(mood_playlists)), lim, playlists))

\* target_mood is already lower-cased
MatchesDev(target_mood, item) ==
    LET item_title == Lower(GetOr(item, "title", <<>>))
    IN  Contains(target_mood, item_title) \/ Contains(item_title, target_mood)

\* the inner loop: params of the first matching item of one category, or the
\* previous value of matched_params when no item of the category matches
MatchInCategory(category_items, target_mood, matched_params) ==
    IF \E i \in 1..Len(category_items) : MatchesDev(target_mood, category_items[i])
    THEN Get(category_items[CHOOSE i \in 1..Len(category_items) :
                 /\ MatchesDev(target_mood, category_items[i])
                 /\ \A j \in 1..(i - 1) : ~MatchesDev(target_mood, category_items[j])],
             "params")
    ELSE matched_params

\* the outer loop, left as soon as matched_params is truthy
RECURSIVE MatchLoopDev(_, _, _)
MatchLoopDev(categories, target_mood, matched_params) ==
    IF Len(categories) = 0 THEN matched_params
    ELSE LET m == MatchInCategory(Head(categories), target_mood, matched_params)
         IN  IF Truthy(m) THEN m ELSE MatchLoopDev(Tail(categories), target_mood, m)

\* "If no match, try the first category as fallback"
FallbackDev(mood_categories, matched_params) ==
    IF ~Truthy(matched_params) /\ Len(mood_categories) > 0
    THEN LET first_category == mood_categories[1]
         IN  IF Len(first_category) > 0
             THEN Get(first_category[1], "params")
             ELSE matched_params
    ELSE matched_params

fetch_mood_playlists_dev(mood, lim, available, yt, n, cat, fail) ==
    LET g == get_ytmusic_dev(available, yt, n, fail)
        cs0 == ConstructCalls(g)
        cs1 == Append(cs0, Call("get_mood_categories", g.yt, ""))
        target_mood == Lower(MoodCategoriesGet(Lower(mood), mood))
        matched_params == FallbackDev(cat.taxonomy,
                              MatchLoopDev(cat.taxonomy, target_mood, NoneV))
        cs2 == Append(cs1, Call("get_mood_playlists", g.yt, matched_params.val))
    IN  IF g.raised THEN Raised(g, cs0)
        ELSE IF g.yt = NoneV THEN Returned(g, cs0, NotAvailable)
        ELSE IF "get_mood_categories" \in fail
        THEN Returned(g, cs1, PyError(ExceptionMessage("get_mood_categories")))
        ELSE IF ~Truthy(matched_params) THEN Returned(g, cs1, PyList(<<>>))
        ELSE IF "get_mood_playlists" \in fail
        THEN Returned(g, cs2, PyError(ExceptionMessage("get_mood_playlists")))
        ELSE Returned(g, cs2,
                 PyList(CollectDev(cat.mood_playlists[matched_params.val], lim, <<>>)))

RECURSIVE SearchLoopDev(_, _)
SearchLoopDev(results, playlists) ==
    IF Len(results) = 0 THEN playlists
    ELSE LET item == Head(results) IN
         IF Get(item, "resultType") = Some("playlist")
            /\ ~( \/ ~Truthy(Get(item, "playlistId"))
                  \/ Lower(Str(Get(item, "playlistId")))
                         \in {<<"n","o","n","e">>, <<"n","u","l","l">>} )
         THEN SearchLoopDev(Tail(results), Append(playlists, SummaryDev(item)))
         ELSE SearchLoopDev(Tail(results), playlists)

search_playlists_dev(query, lim, available, yt, n, cat, fail) ==
    LET g == get_ytmusic_dev(available, yt, n, fail)
        cs0 == ConstructCalls(g)
        cs1 == Append(cs0, Call("search", g.yt, query))
    IN  IF g.raised THEN Raised(g, cs0)
        ELSE IF g.yt = NoneV THEN Returned(g, cs0, NotAvailable)
        ELSE IF "search" \in fail
        THEN Returned(g, cs1, PyError(ExceptionMessage("search")))
        ELSE Returned(g, cs1, PyList(SearchLoopDev(cat.search, <<>>)))

get_available_moods_dev(available, yt, n, cat, fail) ==
    LET g == get_ytmusic_dev(available, yt, n, fail)
        cs0 == ConstructCalls(g)
        cs1 == Append(cs0, Call("get_mood_categories", g.yt, ""))
        items == Flatten(cat.taxonomy)
    IN  IF g.raised THEN Raised(g, cs0)
        ELSE IF g.yt = NoneV THEN Returned(g, cs0, NotAvailable)
        ELSE IF "get_mood_categories" \in fail
        THEN Returned(g, cs1, PyError(ExceptionMessage("get_mood_categories")))
        ELSE Returned(g, cs1, PyList([i \in 1..Len(items) |-> MoodEntry(items[i])]))

\* parse_qs(parsed.query): parameters with a blank value are left out
\* (keep_blank_values is false); the handler reads the first value of each
parse_qs(query) == [k \in {kk \in DOMAIN query : Len(query[kk]) > 0} |-> query[k]]

UnknownActionDev(action) == [error |-> "Unknown action: " \o action]

\* elif action == "search"
route_search_dev(params, lim, available, yt, n, cat, fail) ==
    LET query == GetOr(params, "q", "")
        r == search_playlists_dev(query, lim, available, yt, n, cat, fail)
    IN  IF Len(query) > 0
        THEN [g |-> r.g, calls |-> r.calls, raised |-> r.raised,
              result |-> [playlists |-> r.ret]]
        ELSE [g |-> NoCall(yt), calls |-> <<>>, raised |-> FALSE,
              result |-> [error |-> "Missing 'q' parameter for search"]]

\* the if/elif chain of handle_api
RouteDev(action, params, lim, available, yt, n, cat, fail) ==
    IF action = "moods"
    THEN LET r == get_available_moods_dev(available, yt, n, cat, fail)
         IN  [g |-> r.g, calls |-> r.calls, raised |-> r.raised, result |-> [moods |-> r.ret]]
    ELSE IF action = "browse"
    THEN LET mood == GetOr(params, "mood", <<"p","a","r","t","y">>)
             r == fetch_mood_playlists_dev(mood, lim, available, yt, n, cat, fail)
         IN  [g |-> r.g, calls |-> r.calls, raised |-> r.raised, result |-> [playlists |-> r.ret]]
    ELSE IF action = "search"
    THEN route_search_dev(params, lim, available, yt, n, cat, fail)
    ELSE [g |-> NoCall(yt), calls |-> <<>>, raised |-> FALSE,
          result |-> UnknownActionDev(action)]

----------------------------------------------------------------------------
(* Responses *)

NoResponse == [kind |-> "none"]

\* an exception left the handler: no response was produced
Propagated == [kind |-> "raised"]

\* json.dumps(result): the body is the serialised result
JsonDumps(result) == [json |-> result]

HeadersNetlify ==
    [ContentType |-> "application/json",
     AccessControlAllowOrigin |-> "*",
     CacheControl |-> "s-maxage=3600, stale-while-revalidate"]

HeadersDev ==
    [ContentType |-> "application/json",
     AccessControlAllowOrigin |-> "*"]

HttpResponse(result, headers) ==
    [kind |-> "http", statusCode |-> 200, headers |-> headers, body |-> JsonDumps(result)]

\* The effect of one handled request on the state
Finish(ev, lim, out, headers) ==
    /\ attempts + (IF out.g.attempted THEN 1 ELSE 0) <= MaxAttempts
    /\ event' = ev
    /\ limit' = lim
    /\ calls' = out.calls
    /\ ytmusic' = out.g.yt
    /\ attempts' = attempts + (IF out.g.attempted THEN 1 ELSE 0)
    /\ constructed' = constructed + (IF out.g.attempted /\ ~out.g.raised THEN 1 ELSE 0)
    /\ response' = IF out.raised THEN Propagated ELSE HttpResponse(out.result, headers)
    /\ UNCHANGED <<deployment, YTMUSIC_AVAILABLE, catalog>>

\* playlists.py: handler(event, context)
handler(ev, fail) ==
    /\ deployment = "netlify"
    /\ LET params == ev
           action == GetOr(params, "action", "moods")
           lim == ParseLimit(params)
       IN  Finish(ev, lim,
                  RouteNetlify(action, params, lim, ytmusic, attempts, catalog, fail),
                  HeadersNetlify)

\* server.py: DevHandler.handle_api(parsed)
handle_api(ev, fail) ==
    /\ deployment = "dev"
    /\ LET params == parse_qs(ev)
           action == GetOr(params, "action", "moods")
           lim == ParseLimit(params)
       IN  Finish(ev, lim,
                  RouteDev(action, params, lim, YTMUSIC_AVAILABLE, ytmusic, attempts,
                           catalog, fail),
                  HeadersDev)

----------------------------------------------------------------------------
(* Inputs: what the upstream service may answer, and what a client may ask *)

Tokens == {"p1", "p2", "p3"}

sWorkout == <<"W","o","r","k","o","u","t">>
sWork == <<"W","o","r","k">>
sJazz == <<"J","a","z","z">>
sPL1 == <<"P","L","1">>
sPL2 == <<"P","L","2">>
sNULL == <<"N","U","L","L">>

\* mood items: a title matching "workout" in both directions, one only
\* contained in it, one unrelated, one without params, one without title
TaxonomyItems ==
    { [title |-> sWorkout, params |-> "p1"],
      [title |-> sWork, params |-> "p2"],
      [title |-> sJazz, params |-> "p3"],
      [title |-> sWorkout],
      [params |-> "p3"] }

\* taxonomies of at most nCats categories of at most nItems items
Taxonomies(nCats, nItems) == SeqsUpTo(SeqsUpTo(TaxonomyItems, nItems), nCats)

RawPlaylist(id) ==
    [playlistId |-> id, title |-> "Mix", description |-> "d",
     thumbnails |-> <<[url |-> "small"], [url |-> "large"]>>]

\* a record without playlistId (and without the optional keys)
RawNoId == [title |-> "Untitled"]

PlaylistIds == {sPL1, sPL2, sNULL}

RawPlaylists == {RawPlaylist(id) : id \in PlaylistIds} \cup {RawNoId}

\* a group nests its records under "playlists", or is itself one record
Groups(nRecords) ==
    {[title |-> "Group", playlists |-> ps] : ps \in SeqsUpTo(RawPlaylists, nRecords)}
        \cup {RawPlaylist(id) : id \in PlaylistIds}

GroupSeqs(nGroups, nRecords) == SeqsUpTo(Groups(nRecords), nGroups)

FixedGroups(token) ==
    <<[title |-> "Group", playlists |-> <<RawPlaylist(<<token, "a">>), RawPlaylist(sNULL)>>],
      RawPlaylist(<<token, "b">>),
      [title |-> "Group", playlists |-> <<RawNoId, RawPlaylist(<<>>), RawPlaylist(<<token, "c">>)>>]>>

ResultItems ==
    {[resultType |-> "playlist"] @@ p : p \in RawPlaylists}
        \cup {[resultType |-> "song", playlistId |-> sPL1, title |-> "Song"]}

ResultSeqs(nResults) == SeqsUpTo(ResultItems, nResults)

DefaultTaxonomy ==
    << <<[title |-> sJazz, params |-> "p3"]>>,
       <<[title |-> sWorkout, params |-> "p1"], [title |-> sWork, params |-> "p2"]>> >>

DefaultResults ==
    <<[resultType |-> "song", playlistId |-> sPL1, title |-> "Song"],
      [resultType |-> "playlist"] @@ RawPlaylist(sPL1),
      [resultType |-> "playlist"] @@ RawPlaylist(<<>>),
      [resultType |-> "playlist"] @@ RawPlaylist(sPL2)>>

DefaultCatalog ==
    [taxonomy |-> DefaultTaxonomy,
     mood_playlists |-> [t \in Tokens |-> FixedGroups(t)],
     search |-> DefaultResults]

EmptyCatalog ==
    [taxonomy |-> <<>>,
     mood_playlists |-> [t \in Tokens |-> <<>>],
     search |-> <<>>]

\* the catalogs of the request-sequence specification
RouterCatalogs == {DefaultCatalog, EmptyCatalog}

\* two items match "workout", in different categories
DoubleTaxonomy ==
    << <<[title |-> sWorkout, params |-> "p1"]>>,
       <<[title |-> sJazz, params |-> "p2"], [title |-> sWorkout, params |-> "p3"]>> >>

\* One dimension of the catalog varies at a time, the others keep their default
TaxonomyCatalogs(nCats, nItems) ==
    {[DefaultCatalog EXCEPT !.taxonomy = t] : t \in Taxonomies(nCats, nItems)}

GroupCatalogs(nGroups, nRecords) ==
    {[taxonomy |-> t,
      mood_playlists |-> [tk \in Tokens |-> IF tk = "p1" THEN gs ELSE FixedGroups(tk)],
      search |-> DefaultResults] : t \in {DefaultTaxonomy, DoubleTaxonomy},
                                    gs \in GroupSeqs(nGroups, nRecords)}

SearchCatalogs(nResults) ==
    {[DefaultCatalog EXCEPT !.search = rs] : rs \in ResultSeqs(nResults)}

\* a query string: the dict of the parameters that are present
Query(action, lim, mood, q) ==
    LET given == [action |-> action, limit |-> lim, mood |-> mood, q |-> q]
    IN  [k \in {kk \in DOMAIN given : given[kk].some} |-> given[k].val]

Opt(S) == {NoneV} \cup {Some(v) : v \in S}

Events ==
    {Query(a, l, m, q) :
        a \in Opt({"moods", "browse", "search", "", "play"}),
        l \in Opt({<<"1">>}),
        m \in {Some(<<"W","O","R","K","O","U","T">>)},
        q \in Opt({"", "jazz"})}

LimitChars == {"0", "1", "5", "-", "x", " "}

LimitTexts(n) == SeqsUpTo(LimitChars, n)

LimitEvents(n) ==
    {Query(a, l, NoneV, Some("jazz")) :
        a \in {Some("browse"), Some("search")}, l \in Opt(LimitTexts(n))}

\* browse requests that vary the mood keyword
MoodEvents ==
    {Query(Some("browse"), Some(<<"2">>), m, NoneV) : m \in Opt({<<"W","o","r","k","O","u","t">>, <<"j","a","z","z">>})}

\* browse requests that vary the limit
BrowseEvents ==
    {Query(Some("browse"), l, Some(<<"w","o","r","k","o","u","t">>), NoneV) : l \in Opt({<<"1">>, <<"2">>})}

SearchEvents ==
    {Query(Some("search"), l, NoneV, Some("jazz")) : l \in Opt({<<"1">>, <<"2">>})}

\* Which client operation raises while one request is handled.  A handler
\* stops calling the client at the first exception, so one raising operation
\* per request gives every outcome a request can have.
Failures == {{}} \cup {{op} : op \in ClientOps}

\* the same, with a client that can be constructed
CallFailures == {f \in Failures : "YTMusic" \notin f}

----------------------------------------------------------------------------
(* Specifications *)

InitProcess ==
    /\ deployment \in {"netlify", "dev"}
    /\ YTMUSIC_AVAILABLE \in (IF deployment = "netlify" THEN {TRUE} ELSE BOOLEAN)
    /\ ytmusic = NoneV
    /\ attempts = 0
    /\ constructed = 0
    /\ limit = 10
    /\ calls = <<>>
    /\ response = NoResponse

\* A process serving any sequence of requests
Init ==
    /\ InitProcess
    /\ catalog \in RouterCatalogs
    /\ event = <<>>

Next ==
    \E ev \in Events, fail \in Failures :
        \/ handler(ev, fail)
        \/ handle_api(ev, fail)

Spec == Init /\ [][Next]_vars

\* The request is drawn at the start and handled (again and again), under
\* every failure of a call on the client
Rehandle ==
    \E fail \in CallFailures :
        \/ handler(event, fail)
        \/ handle_api(event, fail)

InitLimit ==
    /\ InitProcess
    /\ catalog = DefaultCatalog
    /\ event \in LimitEvents(MaxLimitLen)

SpecLimit == InitLimit /\ [][Rehandle]_vars

InitCatalog ==
    /\ InitProcess
    /\ YTMUSIC_AVAILABLE
    /\ \/ catalog \in TaxonomyCatalogs(MaxCats, MaxItems) /\ event \in MoodEvents
       \/ catalog \in GroupCatalogs(MaxGroups, MaxRecords) /\ event \in BrowseEvents
       \/ catalog \in SearchCatalogs(MaxResults) /\ event \in SearchEvents

SpecCatalog == InitCatalog /\ [][Rehandle]_vars

----------------------------------------------------------------------------
(* Vocabulary of the properties *)

\* a request has been handled
Handled == response.kind # "none"

\* the handler returned an HTTP response
Answered == response.kind = "http"

\* the query parameters as the handler reads them
Params == IF deployment = "dev" THEN parse_qs(event) ELSE event

Action == GetOr(Params, "action", "moods")

Result == response.body.json

\* the list a browse or search request returned, when it returned one
ReturnedList ==
    IF Answered /\ DOMAIN Result = {"playlists"} /\ Result.playlists.type = "list"
    THEN Some(Result.playlists.items)
    ELSE NoneV

\* an id that is non-empty and neither "none" nor "null" in any case
ValidId(id) ==
    /\ id.some
    /\ Len(id.val) > 0
    /\ Lower(id.val) # <<"n","o","n","e">>
    /\ Lower(id.val) # <<"n","u","l","l">>

Ids(entries) == [i \in 1..Len(entries) |-> entries[i].id]

Take(s, n) == SubSeq(s, 1, Min(n, Len(s)))

\* the get_mood_playlists calls of the last request, in order
FetchCalls == SelectSeq(calls, LAMBDA c : c.op = "get_mood_playlists")

\* the taxonomy was fetched for the last request
TaxonomyFetched ==
    /\ \E i \in 1..Len(calls) : calls[i].op = "get_mood_categories"
    /\ Result.playlists # PyError(ExceptionMessage("get_mood_categories"))

Browsed == Answered /\ Action = "browse" /\ TaxonomyFetched

\* the label a mood keyword resolves to
Label == LET mood == GetOr(Params, "mood", <<"p","a","r","t","y">>)
         IN  MoodCategoriesGet(Lower(mood), mood)

\* the title contains the label, or is contained in it, ignoring case
TitleMatches(item) ==
    LET title == Lower(GetOr(item, "title", <<>>))
    IN  Contains(Lower(Label), title) \/ Contains(title, Lower(Label))

MatchingItems == SelectSeq(Flatten(catalog.taxonomy), TitleMatches)

\* the records a playlist group yields, in either upstream shape
GroupRecords(group) ==
    IF "playlists" \in DOMAIN group /\ Len(group.playlists) > 0 THEN group.playlists
    ELSE IF "playlistId" \in DOMAIN group THEN <<group>>
    ELSE <<>>

RECURSIVE RecordsOf(_)
RecordsOf(groups) ==
    IF Len(groups) = 0 THEN <<>>
    ELSE GroupRecords(Head(groups)) \o RecordsOf(Tail(groups))

RawIds(records) == [i \in 1..Len(records) |-> Get(records[i], "playlistId")]

----------------------------------------------------------------------------
(* Properties *)

\* C1: every handled request ends in an HTTP response with status 200 and a
\* JSON body; an exception of the client never leaves the handler.
C1_AlwaysHttp200 ==
    Handled => (Answered /\ response.statusCode = 200 /\ DOMAIN response.body = {"json"})

\* C2: a step that handles action=search with q missing or empty makes no call
\* on the catalog client, constructs nothing, and answers exactly
\* {"error": "Missing 'q' parameter for search"}, whatever was handled before.
C2_SearchWithoutQ ==
    [][(Action' = "search" /\ Len(GetOr(event', "q", "")) = 0)
          => /\ calls' = <<>>
             /\ attempts' = attempts
             /\ ytmusic' = ytmusic
             /\ response'.kind = "http"
             /\ response'.body.json = [error |-> "Missing 'q' parameter for search"]]_vars

\* C2 witness: the case is handled by a process that already holds a client
C2_Witness ==
    /\ Handled
    /\ Action = "search" /\ Len(GetOr(event, "q", "")) = 0
    /\ ytmusic # NoneV
    /\ calls = <<>>
    /\ Result = [error |-> "Missing 'q' parameter for search"]

\* C3: every entry of a list returned by browse or search has a valid id.
C3_ValidIds ==
    (Action \in {"browse", "search"} /\ ReturnedList.some)
        => \A i \in 1..Len(ReturnedList.val) : ValidId(ReturnedList.val[i].id)

\* the limit parameter as text, when given
LimitText == Get(Params, "limit")

\* an optional minus sign followed by decimal digits only
PlainDecimal(text) ==
    LET digits == IF Len(text) > 0 /\ text[1] = "-" THEN Tail(text) ELSE text
    IN  Len(digits) > 0 /\ \A i \in 1..Len(digits) : IsDigit(digits[i])

RECURSIVE Pow10(_)
Pow10(k) == IF k = 0 THEN 1 ELSE 10 * Pow10(k - 1)

DecimalValue(text) ==
    LET neg == text[1] = "-"
        digits == IF neg THEN Tail(text) ELSE text
        RECURSIVE Sum(_)
        Sum(i) == IF i > Len(digits) THEN 0
                  ELSE DigitVal(digits[i]) * Pow10(Len(digits) - i) + Sum(i + 1)
    IN  IF neg THEN 0 - Sum(1) ELSE Sum(1)

\* C4: the effective limit is in [1,50]; a number below 1 gives 1, above 50
\* gives 50, inside the range is kept; a missing value, and a value int()
\* rejects (in particular one without any digit), gives 10.
C4_LimitClamped ==
    Handled =>
        /\ limit \in 1..50
        /\ ~LimitText.some => limit = 10
        /\ (LimitText.some /\ PlainDecimal(LimitText.val)) =>
              LET n == DecimalValue(LimitText.val)
              IN  /\ n < 1 => limit = 1
                  /\ n > 50 => limit = 50
                  /\ (1 <= n /\ n <= 50) => limit = n
        /\ (LimitText.some /\ \A i \in 1..Len(LimitText.val) : ~IsDigit(LimitText.val[i]))
              => limit = 10
        /\ (LimitText.some /\ ~PyInt(LimitText.val).some) => limit = 10

\* C4 witness: limit=51 was handled and clamped to 50
C4_Witness ==
    /\ Handled
    /\ LimitText = Some(<<"5","1">>)
    /\ limit = 50

C6_BrowseFirstValid ==
    (Browsed /\ ReturnedList.some) =>
        /\ Len(ReturnedList.val) <= limit
        /\ Len(FetchCalls) <= 1
        /\ Ids(ReturnedList.val) =
              IF Len(FetchCalls) = 0 THEN <<>>
              ELSE Take(SelectSeq(RawIds(RecordsOf(catalog.mood_playlists[FetchCalls[1].arg])),
                               ValidId),
                        limit)

\* the upstream results a search may return: playlists with a valid id
WantedResult(item) ==
    Get(item, "resultType") = Some("playlist") /\ ValidId(Get(item, "playlistId"))

\* C7: a search result holds only the upstream results of type "playlist" with
\* a valid id, in upstream order, truncated to `limit` entries.
C7_SearchTruncated ==
    (Answered /\ Action = "search" /\ ReturnedList.some) =>
        /\ Len(ReturnedList.val) <= limit
        /\ Ids(ReturnedList.val) =
              Take(RawIds(SelectSeq(catalog.search, WantedResult)), limit)

\* C8 as stated: once a construction has been attempted, successful or not, no
\* later request attempts one.
C8_AtMostOneAttempt ==
    [][attempts >= 1 => attempts' = attempts]_vars

\* C8 amended: the client is constructed successfully at most once; once the
\* handle is set no request attempts construction or replaces it, and every
\* call of a request goes to that handle; while the handle is unset (never
\* attempted, or the attempt raised) a request that uses the client attempts
\* construction.
C8_AtMostOneHandle ==
    [][/\ constructed' <= 1
       /\ ytmusic # NoneV => (ytmusic' = ytmusic /\ attempts' = attempts)
       /\ \A i \in 1..Len(calls') :
             calls'[i].op # "YTMusic" => (ytmusic' # NoneV /\ calls'[i].handle = ytmusic')
       /\ (ytmusic = NoneV /\ Len(calls') > 0) => attempts' = attempts + 1]_vars

\* C8 witness: after a failed attempt a later request constructed the handle,
\* and a request after that one used it without constructing
C8_Witness ==
    /\ attempts >= 2
    /\ constructed = 1
    /\ ytmusic # NoneV
    /\ Len(calls) > 0
    /\ \A i \in 1..Len(calls) : calls[i].op # "YTMusic" /\ calls[i].handle = ytmusic

\* the first item of the first non-empty category
FirstItem == Flatten(catalog.taxonomy)[1]

\* C9: when no item matches and the taxonomy has an item, playlists are
\* fetched with the params of the first item of the first non-empty category.
C9_FallbackFirstNonEmpty ==
    (/\ Browsed
     /\ Len(MatchingItems) = 0
     /\ Len(Flatten(catalog.taxonomy)) > 0
     /\ "params" \in DOMAIN FirstItem)
        => /\ Len(FetchCalls) = 1
           /\ FetchCalls[1].arg = FirstItem.params

\* C10: when an item matches, playlists are fetched exactly once, with the
\* params of the first matching item in category then item order.
C10_FirstMatchOnly ==
    (/\ Browsed
     /\ Len(MatchingItems) > 0
     /\ "params" \in DOMAIN MatchingItems[1])
        => /\ Len(FetchCalls) = 1
           /\ FetchCalls[1].arg = MatchingItems[1].params

====
